---- MODULE Spec2Model ----
(***************************************************************************)
(* Model of the DG-Lab Coyote server (coyote_ws_server_api.py): the        *)
(* /shock boundary, the single-consumer worker over the job queue, the     *)
(* session task that sets the binding-readiness flag, and start/stop.      *)
(* One asyncio event loop: every action is the code that runs between two  *)
(* suspension points of one task or handler.                               *)
(***************************************************************************)
EXTENDS Integers, Sequences, FiniteSets, TLC

\* ------------------------------------------------------------------ bounds
\* Jobs ever created by /shock (the queue itself is unbounded in the code).
MaxJobs == 2
\* Tasks of each kind that start() creates when start and stop are called in
\* any sequence, and the jobs created in those runs.
MaxTasks == 2
MaxRestartJobs == 1
\* Jobs created in the runs that range over the owner ceilings.
MaxCapJobs == 1
\* /shock commands the Telegram bot handles.
MaxCommands == 1

\* --------------------------------------------------------------- constants
DEF_AMP == 20
DEF_FREQ == 20
DEF_COPIES == 5
FREQ_MAX == 200
COPIES_MIN == 1
COPIES_MAX == 100
AMP_MAX == 100
FRAME_MS == 100

\* HTTP status codes of the boundary.
HTTP_OK == 200
HTTP_BAD_REQUEST == 400
HTTP_UNPROCESSABLE == 422
HTTP_SERVER_ERROR == 500
HTTP_UNAVAILABLE == 503

\* OWNER_MAX_POWER = int(os.getenv("OWNER_MAX_POWER", "50")): the default, and
\* the values the environment can give it; the value is not validated, so it
\* can be below 0 or above 100.
OWNER_MAX_DEFAULT == 50
OwnerCaps == {-5, 0, 50, 100, 150}

\* Request bodies posted to /shock.  A missing field takes the Field default.
Requests ==
    { [channel |-> "A", amp |-> 80, freq |-> 20, copies |-> 5],
      [channel |-> "b", freq |-> 200, copies |-> 1],
      [channel |-> "C", amp |-> 20, freq |-> 20, copies |-> 5],
      [channel |-> "A", amp |-> 101, freq |-> 20, copies |-> 5],
      [channel |-> "B", amp |-> -1, freq |-> 20, copies |-> 5],
      [channel |-> "A", amp |-> 20, freq |-> 201, copies |-> 5],
      [channel |-> "B", amp |-> 20, freq |-> -1, copies |-> 5],
      [channel |-> "A", amp |-> 20, freq |-> 20, copies |-> 0],
      [channel |-> "a", amp |-> 20, freq |-> 20, copies |-> 101] }

\* Valid request bodies at and between the ends of the amplitude range.
CapRequests ==
    { [channel |-> "A", amp |-> 80, freq |-> 20, copies |-> 5],
      [channel |-> "B", amp |-> 0, freq |-> 0, copies |-> 1],
      [channel |-> "b", amp |-> 100, freq |-> 200, copies |-> 2],
      [channel |-> "a"] }

\* Arguments of the bot's /shock command, each a str (a sequence of
\* characters): channels, amplitudes, frequencies and repeat counts inside and
\* outside their ranges, and strings that are no integers.
ChannelArgs == {<<"A">>, <<"b">>, <<"c">>, <<"A", "B">>}
AmpArgs == {<<"0">>, <<"1", "0", "0">>, <<"1", "0", "1">>, <<"-", "1">>,
            <<"+", "7">>, <<"1", "_", "0">>, <<"b">>, << >>}
FreqArgs == {<<"0">>, <<"2", "0", "0">>, <<"2", "0", "1">>, <<"-", "1">>, <<"2", "_">>}
CopiesArgs == {<<"1">>, <<"1", "0", "0">>, <<"0">>, <<"1", "0", "1">>, <<" ", "7">>,
               <<"a">>}

\* The argument lists of the /shock command: none to five arguments.
ArgLists ==
    {<< >>}
    \cup {<<ch>> : ch \in ChannelArgs}
    \cup {<<ch, amp>> : ch \in ChannelArgs, amp \in AmpArgs}
    \cup {<<ch, amp, freq>> : ch \in ChannelArgs, amp \in AmpArgs, freq \in FreqArgs}
    \cup {<<ch, amp, freq, copies>> :
              ch \in {<<"A">>, <<"b">>}, amp \in {<<"0">>, <<"1", "0", "0">>, <<"b">>},
              freq \in FreqArgs, copies \in CopiesArgs}
    \cup {<<ch, amp, freq, copies, <<"9">> >> :
              ch \in {<<"A">>}, amp \in {<<"0">>}, freq \in FreqArgs,
              copies \in CopiesArgs}

\* What a call on the device session can do: return, or raise
\* InvalidPulseOperation, PulseDataTooLong, or any other exception.
Outcomes == {"ok", "invalid", "toolong", "fault"}

VARIABLES
    owner_max,      \* CFG.OWNER_MAX_POWER
    controller,     \* server.controller: 0 is None, else the session task whose client it wraps
    bound_event,    \* server.bound_event
    ws_task,        \* server._ws_task: 0 is None, else an index of ws
    worker_task,    \* server._worker_task: 0 is None, else an index of wk
    ws,             \* the _run_ws tasks ever created
    wk,             \* the _run_worker tasks ever created
    stop,           \* the stop() coroutine: where it is, the tasks it read, and
                    \* whether it has returned with no start() since
    queue,          \* server.queue: indices of jobs
    jobs,           \* the ShockJob objects ever created
    dev,            \* the calls made on the device session, in order
    last,           \* the answer to the last /shock call refused before enqueueing
    bot             \* the Telegram bot: what parse_shock_args returned for the
                    \* last /shock command, whether its payload is being posted,
                    \* and the number of commands handled

vars == <<owner_max, controller, bound_event, ws_task, worker_task, ws, wk,
          stop, queue, jobs, dev, last, bot>>

\* ----------------------------------------------------------- pure functions
Min(a, b) == IF a <= b THEN a ELSE b
Max(a, b) == IF a >= b THEN a ELSE b

clamp_int(x, lo, hi) == Max(lo, Min(hi, x))

\* str.upper() on the channel strings of Requests.
Upper(s) ==
    CASE s = "a" -> "A"
      [] s = "b" -> "B"
      [] s = "c" -> "C"
      [] OTHER -> s

\* The strength raised in every slot of the frame instead of one.
build_pulse_frames_all_slots(amp, freq, copies) ==
    LET a == clamp_int(amp, 0, AMP_MAX)
        f == clamp_int(freq, 0, FREQ_MAX)
        c == clamp_int(copies, COPIES_MIN, COPIES_MAX)
        frame == << <<f, f, f, f>>, <<a, a, a, a>> >>
    IN  [i \in 1..c |-> frame]

\* [frame] * copies, frame = ((f,f,f,f), (0,amp,0,0)).
build_pulse_frames(amp, freq, copies) ==
    LET a == clamp_int(amp, 0, AMP_MAX)
        f == clamp_int(freq, 0, FREQ_MAX)
        c == clamp_int(copies, COPIES_MIN, COPIES_MAX)
        frame == << <<f, f, f, f>>, <<0, a, 0, 0>> >>
    IN  [i \in 1..c |-> frame]

\* Field(default, ...): the value given, else the default.
Field(req, name, default) ==
    IF name \in DOMAIN req THEN req[name] ELSE default

\* The ShockRequest pydantic model after defaults and the channel validator.
ShockRequest(req) ==
    [channel |-> Upper(req.channel),
     amp     |-> Field(req, "amp", DEF_AMP),
     freq    |-> Field(req, "freq", DEF_FREQ),
     copies  |-> Field(req, "copies", DEF_COPIES)]

\* ShockRequest without le=CFG.FREQ_MAX on freq.
ShockRequestValidNoFreqCap(req) ==
    LET r == ShockRequest(req)
    IN  /\ r.channel \in {"A", "B"}
        /\ 0 <= r.amp /\ r.amp <= AMP_MAX
        /\ 0 <= r.freq
        /\ COPIES_MIN <= r.copies /\ r.copies <= COPIES_MAX

\* Whether ShockRequest(**body) validates (else FastAPI answers 422).
ShockRequestValid(req) ==
    LET r == ShockRequest(req)
    IN  /\ r.channel \in {"A", "B"}
        /\ 0 <= r.amp /\ r.amp <= AMP_MAX
        /\ 0 <= r.freq /\ r.freq <= FREQ_MAX
        /\ COPIES_MIN <= r.copies /\ r.copies <= COPIES_MAX

\* ------------------------------------------------------------ result slots
\* asyncio.Future states of ShockJob.done.
Pending == [st |-> "pending", code |-> 0]
Cancelled == [st |-> "cancelled", code |-> 0]

\* The payload reporting the requested amplitude as the effective one.
RespReportsRequested(job, amp_eff) ==
    [ok |-> TRUE, mode |-> "pulse", channel |-> job.channel,
     amp_requested |-> job.amp_requested, amp_effective |-> job.amp_requested,
     owner_max |-> owner_max,
     freq |-> clamp_int(job.freq, 0, FREQ_MAX),
     copies |-> job.copies,
     approx_duration_ms |-> job.copies * FRAME_MS]

\* The success payload of _run_worker.
Resp(job, amp_eff) ==
    [ok |-> TRUE, mode |-> "pulse", channel |-> job.channel,
     amp_requested |-> job.amp_requested, amp_effective |-> amp_eff,
     owner_max |-> owner_max,
     freq |-> clamp_int(job.freq, 0, FREQ_MAX),
     copies |-> job.copies,
     approx_duration_ms |-> job.copies * FRAME_MS]

\* The except clauses in the wrong order: `except Exception` first, so every
\* fault is a server fault.
SettledAllServerFaults(job, amp_eff, o) ==
    IF o = "ok"
    THEN [st |-> "result", code |-> HTTP_OK, resp |-> Resp(job, amp_eff)]
    ELSE [st |-> "exception", code |-> HTTP_SERVER_ERROR]

\* The slot after the try block ended with outcome o: the success payload, or
\* HTTPException(400) for InvalidPulseOperation / PulseDataTooLong, or
\* HTTPException(500) for any other Exception.
Settled(job, amp_eff, o) ==
    CASE o = "ok" ->
            [st |-> "result", code |-> HTTP_OK, resp |-> Resp(job, amp_eff)]
      [] o \in {"invalid", "toolong"} ->
            [st |-> "exception", code |-> HTTP_BAD_REQUEST]
      [] OTHER ->
            [st |-> "exception", code |-> HTTP_SERVER_ERROR]

\* The slot assigned without looking at job.done.done().
ResolveUnguarded(job, amp_eff, o) ==
    [job EXCEPT !.done = Settled(job, amp_eff, o)]

\* if not job.done.done(): job.done.set_result(...) / set_exception(...)
Resolve(job, amp_eff, o) ==
    IF job.done.st = "pending"
    THEN [job EXCEPT !.done = Settled(job, amp_eff, o)]
    ELSE job

\* ShockJob(channel, amp_requested, freq, copies, done) and, with it, the
\* /shock handler suspended on `await done`.
ShockJob(r) ==
    [channel |-> r.channel, amp_requested |-> r.amp, freq |-> r.freq,
     copies |-> r.copies, done |-> Pending]

\* No /shock call has been refused yet.
NoAnswer == [code |-> 0, detail |-> ""]

\* The bot has handled no /shock command yet.  payload and notes are sets:
\* empty for None and for the empty dict.
NoCommand == [payload |-> {}, error |-> "", notes |-> {}, posting |-> FALSE, n |-> 0]

\* ------------------------------------------------------------------- tasks
\* t and not t.done()
Live(tasks, t) == IF t = 0 THEN FALSE ELSE tasks[t].pc # "done"
\* not t or t.done()
NeedsTask(tasks, t) == ~Live(tasks, t)

NewWs == [pc |-> "start", cancel |-> FALSE]
Idle == [pc |-> "get", cancel |-> FALSE, job |-> 0, amp_eff |-> 0, ctl |-> 0]
NewWorker == Idle
\* A finished task: its frame and its locals are gone.
DoneWs == [pc |-> "done", cancel |-> FALSE]
DoneWorker == [Idle EXCEPT !.pc = "done"]

\* stop() is not running: it was never called, or (stopped) it has returned
\* and start() was not called since.
NotStopping == [pc |-> "idle", w |-> 0, s |-> 0, stopped |-> FALSE]
Stopped == [pc |-> "idle", w |-> 0, s |-> 0, stopped |-> TRUE]

Init ==
    /\ owner_max = OWNER_MAX_DEFAULT
    /\ controller = 0
    /\ bound_event = FALSE
    /\ ws_task = 0
    /\ worker_task = 0
    /\ ws = << >>
    /\ wk = << >>
    /\ stop = NotStopping
    /\ queue = << >>
    /\ jobs = << >>
    /\ dev = << >>
    /\ last = NoAnswer
    /\ bot = NoCommand

\* start() without the `not t or t.done()` tests: new tasks on every call.
StartAlways ==
    /\ Len(ws) < MaxTasks
    /\ Len(wk) < MaxTasks
    /\ ws' = Append(ws, NewWs) /\ ws_task' = Len(ws) + 1
    /\ wk' = Append(wk, NewWorker) /\ worker_task' = Len(wk) + 1
    /\ stop' = [stop EXCEPT !.stopped = FALSE]
    /\ UNCHANGED <<owner_max, controller, bound_event, queue, jobs, dev, last, bot>>

\* CoyoteServer.start
Start ==
    /\ NeedsTask(ws, ws_task) => Len(ws) < MaxTasks
    /\ NeedsTask(wk, worker_task) => Len(wk) < MaxTasks
    /\ NeedsTask(ws, ws_task) \/ NeedsTask(wk, worker_task)
    /\ IF NeedsTask(ws, ws_task)
       THEN ws' = Append(ws, NewWs) /\ ws_task' = Len(ws) + 1
       ELSE UNCHANGED <<ws, ws_task>>
    /\ IF NeedsTask(wk, worker_task)
       THEN wk' = Append(wk, NewWorker) /\ worker_task' = Len(wk) + 1
       ELSE UNCHANGED <<wk, worker_task>>
    /\ stop' = [stop EXCEPT !.stopped = FALSE]
    /\ UNCHANGED <<owner_max, controller, bound_event, queue, jobs, dev, last, bot>>

\* ---------------------------------------------------------- device session
\* The two branches of the channel choice exchanged.
ChannelOfSwapped(channel) == IF Upper(channel) = "A" THEN "B" ELSE "A"

\* Channel.A if channel.upper() == "A" else Channel.B
ChannelOf(channel) == IF Upper(channel) = "A" THEN "A" ELSE "B"

\* One call on the pydglab_ws client, as the device session sees it: the
\* operation, the job it is made for, the controller it goes through, whether
\* bound_event was set when it was made, and what the session answers.
Call(op, j, job, ctl, frames) ==
    [op |-> op, job |-> j, ch |-> ChannelOf(job.channel), frames |-> frames,
     ctl |-> ctl, bound |-> bound_event, res |-> "pending"]

\* The session answers the call in flight, the last one made.
Answered(d, o) == [d EXCEPT ![Len(d)].res = o]

\* ------------------------------------------------------------ _run_worker
\* asyncio.LifoQueue in place of asyncio.Queue: get() takes the newest item.
QueueGetLifo(q) == [item |-> q[Len(q)], rest |-> SubSeq(q, 1, Len(q) - 1)]

\* asyncio.Queue: get() takes the oldest item, put() adds at the tail.
QueueGet(q) == [item |-> Head(q), rest |-> Tail(q)]
QueuePut(q, j) == Append(q, j)

\* The owner ceiling not applied.
AmpEffUncapped(job) == job.amp_requested

\* amp_eff = min(job.amp_requested, self.cfg.OWNER_MAX_POWER)
AmpEff(job) == Min(job.amp_requested, owner_max)

\* The worker from the head of an iteration on job j, past bound_event.wait(),
\* up to its next suspension: controller.shock raises AttributeError on a
\* missing controller (caught: HTTP 500, next iteration), otherwise shock runs
\* to its first await, client.clear_pulses(ch).
RECURSIVE RunJob(_, _, _)
RECURSIVE RunLoop(_, _)

\* The worker drops a job whose future is already done (its caller is gone)
\* instead of executing it.
RunJobSkipDone(j, q, js) ==
    IF js[j].done.st # "pending" \/ controller = 0
    THEN RunLoop(q, [js EXCEPT ![j] = Resolve(js[j], AmpEff(js[j]), "fault")])
    ELSE [queue |-> q, jobs |-> js,
          task |-> [pc |-> "clear", cancel |-> FALSE, job |-> j,
                    amp_eff |-> AmpEff(js[j]), ctl |-> controller]]

RunJob(j, q, js) ==
    IF controller = 0
    THEN RunLoop(q, [js EXCEPT ![j] = Resolve(js[j], AmpEff(js[j]), "fault")])
    ELSE [queue |-> q, jobs |-> js,
          task |-> [pc |-> "clear", cancel |-> FALSE, job |-> j,
                    amp_eff |-> AmpEff(js[j]), ctl |-> controller]]

\* The worker from the top of `while True` up to its next suspension:
\* queue.get() suspends on an empty queue, bound_event.wait() on an unset flag.
RunLoop(q, js) ==
    IF q = << >>
    THEN [queue |-> q, jobs |-> js, task |-> Idle]
    ELSE LET got == QueueGet(q)
         IN  IF ~bound_event
             THEN [queue |-> got.rest, jobs |-> js,
                   task |-> [Idle EXCEPT !.pc = "wait", !.job = got.item]]
             ELSE RunJob(got.item, got.rest, js)

\* The state after worker t ran to the suspension r describes, d being the
\* calls made so far; reaching client.clear_pulses makes that call.
Suspend(t, r, d) ==
    /\ queue' = r.queue
    /\ jobs' = r.jobs
    /\ wk' = [wk EXCEPT ![t] = r.task]
    /\ dev' = IF r.task.pc = "clear"
              THEN Append(d, Call("clear", r.task.job, r.jobs[r.task.job],
                                  r.task.ctl, << >>))
              ELSE d

\* The worker resumes from queue.get() (a job is there) or from
\* bound_event.wait() (the flag is set).
WorkerResume(t) ==
    /\ wk[t].pc \in {"get", "wait"}
    /\ ~wk[t].cancel
    /\ IF wk[t].pc = "get"
       THEN queue # << >> /\ Suspend(t, RunLoop(queue, jobs), dev)
       ELSE bound_event /\ Suspend(t, RunJob(wk[t].job, queue, jobs), dev)
    /\ UNCHANGED <<owner_max, controller, bound_event, ws_task, worker_task,
                   ws, stop, last, bot>>

\* No except clause: a fault of the call in flight leaves the loop, and the
\* worker task ends with it.
FinishCrash(t, o) ==
    IF o = "ok"
    THEN Suspend(t,
                 RunLoop(queue,
                         [jobs EXCEPT ![wk[t].job] =
                              Resolve(jobs[wk[t].job], wk[t].amp_eff, o)]),
                 Answered(dev, o))
    ELSE /\ wk' = [wk EXCEPT ![t] = DoneWorker]
         /\ dev' = Answered(dev, o)
         /\ UNCHANGED <<queue, jobs>>

\* A failed job is put back on the queue to be tried again.
FinishRetry(t, o) ==
    LET j == wk[t].job
    IN  IF o = "ok"
        THEN Suspend(t,
                     RunLoop(queue,
                             [jobs EXCEPT ![j] = Resolve(jobs[j], wk[t].amp_eff, o)]),
                     Answered(dev, o))
        ELSE Suspend(t, RunLoop(QueuePut(queue, j), jobs), Answered(dev, o))

\* The call in flight ended with outcome o and the try block with it: the
\* slot is resolved (success payload, or the except clause for o), finally
\* runs queue.task_done(), and the loop goes on to its next suspension.
Finish(t, o) ==
    LET j == wk[t].job
    IN  Suspend(t,
                RunLoop(queue,
                        [jobs EXCEPT ![j] = Resolve(jobs[j], wk[t].amp_eff, o)]),
                Answered(dev, o))

\* client.clear_pulses(ch) returns or raises; on return shock goes on to
\* client.add_pulses(ch, *frames).
WorkerClearDone(t, o) ==
    /\ wk[t].pc = "clear"
    /\ ~wk[t].cancel
    /\ IF o = "ok"
       THEN LET j == wk[t].job
                frames == build_pulse_frames(wk[t].amp_eff, jobs[j].freq,
                                             jobs[j].copies)
            IN  /\ dev' = Append(Answered(dev, o),
                                 Call("add", j, jobs[j], wk[t].ctl, frames))
                /\ wk' = [wk EXCEPT ![t].pc = "add"]
                /\ UNCHANGED <<queue, jobs>>
       ELSE Finish(t, o)
    /\ UNCHANGED <<owner_max, controller, bound_event, ws_task, worker_task,
                   ws, stop, last, bot>>

\* client.add_pulses(ch, *frames) returns or raises.
WorkerAddDone(t, o) ==
    /\ wk[t].pc = "add"
    /\ ~wk[t].cancel
    /\ Finish(t, o)
    /\ UNCHANGED <<owner_max, controller, bound_event, ws_task, worker_task,
                   ws, stop, last, bot>>

\* CancelledError is thrown into the worker at its suspension point: it is a
\* BaseException, so no except clause of the loop catches it, the job in hand
\* keeps its slot as it is, and the task ends.
WorkerCancelled(t) ==
    /\ wk[t].pc # "done"
    /\ wk[t].cancel
    /\ wk' = [wk EXCEPT ![t] = DoneWorker]
    /\ UNCHANGED <<owner_max, controller, bound_event, ws_task, worker_task,
                   ws, stop, queue, jobs, dev, last, bot>>

\* ---------------------------------------------------------------- _run_ws
\* The controller is kept in a local of the session task, not in
\* self.controller.
WsOpenNoController(t, opened) ==
    /\ ws[t].pc = "start"
    /\ ~ws[t].cancel
    /\ ws' = IF opened THEN [ws EXCEPT ![t].pc = "bind"] ELSE [ws EXCEPT ![t] = DoneWs]
    /\ UNCHANGED <<owner_max, controller, bound_event, ws_task, worker_task, wk,
                   stop, queue, jobs, dev, last, bot>>

\* The flag is set as soon as the server is up, before client.bind().
WsOpenSetsFlag(t, opened) ==
    /\ ws[t].pc = "start"
    /\ ~ws[t].cancel
    /\ IF opened
       THEN /\ controller' = t
            /\ bound_event' = TRUE
            /\ ws' = [ws EXCEPT ![t].pc = "bind"]
       ELSE UNCHANGED <<controller, bound_event>> /\ ws' = [ws EXCEPT ![t] = DoneWs]
    /\ UNCHANGED <<owner_max, ws_task, worker_task, wk, stop,
                   queue, jobs, dev, last, bot>>

\* The session task enters DGLabWSServer and wraps a new local client in the
\* controller; entering the server can fail (the port is taken), which ends
\* the task before the controller is assigned.
WsOpen(t, opened) ==
    /\ ws[t].pc = "start"
    /\ ~ws[t].cancel
    /\ IF opened
       THEN controller' = t /\ ws' = [ws EXCEPT ![t].pc = "bind"]
       ELSE UNCHANGED controller /\ ws' = [ws EXCEPT ![t] = DoneWs]
    /\ UNCHANGED <<owner_max, bound_event, ws_task, worker_task, wk, stop,
                   queue, jobs, dev, last, bot>>

\* client.bind() returns: the app is bound, the flag is set, and the task
\* stays on `await asyncio.Future()`.
WsBound(t) ==
    /\ ws[t].pc = "bind"
    /\ ~ws[t].cancel
    /\ bound_event' = TRUE
    /\ ws' = [ws EXCEPT ![t].pc = "alive"]
    /\ UNCHANGED <<owner_max, controller, ws_task, worker_task, wk, stop,
                   queue, jobs, dev, last, bot>>

\* The session task clears the flag when it ends.
WsCancelledClearsFlag(t) ==
    /\ ws[t].pc # "done"
    /\ ws[t].cancel
    /\ ws' = [ws EXCEPT ![t] = DoneWs]
    /\ bound_event' = FALSE
    /\ UNCHANGED <<owner_max, controller, ws_task, worker_task,
                   wk, stop, queue, jobs, dev, last, bot>>

\* CancelledError is thrown into the session task: the server context exits.
\* Neither the controller nor the flag is reset.
WsCancelled(t) ==
    /\ ws[t].pc # "done"
    /\ ws[t].cancel
    /\ ws' = [ws EXCEPT ![t] = DoneWs]
    /\ UNCHANGED <<owner_max, controller, bound_event, ws_task, worker_task,
                   wk, stop, queue, jobs, dev, last, bot>>

\* ------------------------------------------------------------------- stop
\* The second half of stop's loop, t = self._ws_task: cancel it and await it
\* if it is there and not done, else return.
StopWs(s) ==
    IF Live(ws, s)
    THEN /\ ws' = [ws EXCEPT ![s].cancel = TRUE]
         /\ stop' = [pc |-> "await_ws", w |-> 0, s |-> s, stopped |-> FALSE]
    ELSE /\ ws' = ws
         /\ stop' = Stopped

\* stop() without `await t`: both tasks are cancelled and stop returns.
StopCallNoAwait ==
    /\ stop.pc = "idle"
    /\ wk' = IF Live(wk, worker_task)
             THEN [wk EXCEPT ![worker_task].cancel = TRUE] ELSE wk
    /\ ws' = IF Live(ws, ws_task)
             THEN [ws EXCEPT ![ws_task].cancel = TRUE] ELSE ws
    /\ stop' = Stopped
    /\ UNCHANGED <<owner_max, controller, bound_event, ws_task, worker_task,
                   queue, jobs, dev, last, bot>>

\* stop() is called: the tuple (self._worker_task, self._ws_task) is read,
\* and the worker is cancelled and awaited first.
StopCall ==
    /\ stop.pc = "idle"
    /\ IF Live(wk, worker_task)
       THEN /\ wk' = [wk EXCEPT ![worker_task].cancel = TRUE]
            /\ stop' = [pc |-> "await_worker", w |-> worker_task, s |-> ws_task,
                         stopped |-> FALSE]
            /\ ws' = ws
       ELSE wk' = wk /\ StopWs(ws_task)
    /\ UNCHANGED <<owner_max, controller, bound_event, ws_task, worker_task,
                   queue, jobs, dev, last, bot>>

\* `await t` on the worker ends with CancelledError, which stop swallows.
StopAfterWorker ==
    /\ stop.pc = "await_worker"
    /\ wk[stop.w].pc = "done"
    /\ StopWs(stop.s)
    /\ UNCHANGED <<owner_max, controller, bound_event, ws_task, worker_task,
                   wk, queue, jobs, dev, last, bot>>

\* `await t` on the session task ends; stop returns.
StopAfterWs ==
    /\ stop.pc = "await_ws"
    /\ ws[stop.s].pc = "done"
    /\ stop' = Stopped
    /\ UNCHANGED <<owner_max, controller, bound_event, ws_task, worker_task,
                   ws, wk, queue, jobs, dev, last, bot>>

\* ---------------------------------------------------------- POST /shock
Answer(code, detail) == [code |-> code, detail |-> detail]

\* The handler calls controller.shock itself instead of queueing a job.
ShockDirect(req, cap) ==
    /\ IF ~ShockRequestValid(req)
       THEN /\ last' = Answer(HTTP_UNPROCESSABLE, "validation")
            /\ UNCHANGED <<queue, jobs, dev>>
       ELSE IF ~bound_event
       THEN /\ last' = Answer(HTTP_UNAVAILABLE, "not bound")
            /\ UNCHANGED <<queue, jobs, dev>>
       ELSE IF controller = 0
       THEN /\ last' = Answer(HTTP_UNAVAILABLE, "no controller")
            /\ UNCHANGED <<queue, jobs, dev>>
       ELSE LET job == ShockJob(ShockRequest(req))
                j == Len(jobs) + 1
            IN  /\ Len(jobs) < cap
                /\ jobs' = Append(jobs, Resolve(job, AmpEff(job), "ok"))
                /\ dev' = dev \o
                      << [Call("clear", j, job, controller, << >>)
                              EXCEPT !.res = "ok"],
                         [Call("add", j, job, controller,
                               build_pulse_frames(AmpEff(job), job.freq, job.copies))
                              EXCEPT !.res = "ok"] >>
                /\ UNCHANGED <<queue, last>>
    /\ UNCHANGED <<owner_max, controller, bound_event, ws_task, worker_task,
                   ws, wk, stop>>

\* The handler testing the controller only: a request that arrives between
\* the controller's assignment and the binding is queued.
ShockControllerOnly(req, cap) ==
    /\ IF ~ShockRequestValid(req)
       THEN /\ last' = Answer(HTTP_UNPROCESSABLE, "validation")
            /\ UNCHANGED <<queue, jobs>>
       ELSE IF controller = 0
       THEN /\ last' = Answer(HTTP_UNAVAILABLE, "no controller")
            /\ UNCHANGED <<queue, jobs>>
       ELSE /\ Len(jobs) < cap
            /\ jobs' = Append(jobs, ShockJob(ShockRequest(req)))
            /\ queue' = QueuePut(queue, Len(jobs) + 1)
            /\ last' = last
    /\ UNCHANGED <<owner_max, controller, bound_event, ws_task, worker_task,
                   ws, wk, stop, dev>>

\* The handler without the bound_event.is_set() fast failure.
ShockNoReadyCheck(req, cap) ==
    /\ IF ~ShockRequestValid(req)
       THEN /\ last' = Answer(HTTP_UNPROCESSABLE, "validation")
            /\ UNCHANGED <<queue, jobs>>
       ELSE /\ Len(jobs) < cap
            /\ jobs' = Append(jobs, ShockJob(ShockRequest(req)))
            /\ queue' = QueuePut(queue, Len(jobs) + 1)
            /\ last' = last
    /\ UNCHANGED <<owner_max, controller, bound_event, ws_task, worker_task,
                   ws, wk, stop, dev>>

\* The handler up to `await done`: validation (422), the two fast failures
\* (503), else a job with a fresh future is put on the unbounded queue.  It
\* says nothing of the client that posted the request.
Shock(req, cap) ==
    /\ IF ~ShockRequestValid(req)
       THEN /\ last' = Answer(HTTP_UNPROCESSABLE, "validation")
            /\ UNCHANGED <<queue, jobs>>
       ELSE IF ~bound_event
       THEN /\ last' = Answer(HTTP_UNAVAILABLE, "not bound")
            /\ UNCHANGED <<queue, jobs>>
       ELSE IF controller = 0
       THEN /\ last' = Answer(HTTP_UNAVAILABLE, "no controller")
            /\ UNCHANGED <<queue, jobs>>
       ELSE /\ Len(jobs) < cap
            /\ jobs' = Append(jobs, ShockJob(ShockRequest(req)))
            /\ queue' = QueuePut(queue, Len(jobs) + 1)
            /\ last' = last
    /\ UNCHANGED <<owner_max, controller, bound_event, ws_task, worker_task,
                   ws, wk, stop, dev>>

\* `await done` ends: the handler returns the payload (200) or raises the
\* HTTPException the worker stored; it changes no state of the server.
ShockAnswer(j) ==
    IF jobs[j].done.st \in {"result", "exception"}
    THEN Answer(jobs[j].done.code, jobs[j].done.st)
    ELSE NoAnswer

\* The request task is cancelled while it awaits the future (the caller went
\* away): the pending future is cancelled with it.
CallerCancelled(j) ==
    /\ jobs[j].done.st = "pending"
    /\ jobs' = [jobs EXCEPT ![j].done = Cancelled]
    /\ UNCHANGED <<owner_max, controller, bound_event, ws_task, worker_task,
                   ws, wk, stop, queue, dev, last, bot>>

\* ------------------------------------------------------------ FastAPI app
\* @app.on_event("startup"): called once, before any request is served.
on_startup ==
    /\ ws_task = 0
    /\ worker_task = 0
    /\ Start

\* @app.on_event("shutdown")
on_shutdown == StopCall

\* @app.post("/shock"): requests are served once startup has run.
post_shock(req, cap) ==
    /\ ws_task # 0
    /\ Shock(req, cap)
    /\ UNCHANGED bot

\* -------------------------------------------------- tele_shocker_bot.py
\* A str is the sequence of its characters.
Digits == {"0", "1", "2", "3", "4", "5", "6", "7", "8", "9"}

DigitValue(c) ==
    CASE c = "0" -> 0 [] c = "1" -> 1 [] c = "2" -> 2 [] c = "3" -> 3
      [] c = "4" -> 4 [] c = "5" -> 5 [] c = "6" -> 6 [] c = "7" -> 7
      [] c = "8" -> 8 [] c = "9" -> 9

\* str.strip(): the string without its leading and trailing blanks.
RECURSIVE Strip(_)
Strip(str) ==
    IF str = << >> THEN str
    ELSE IF Head(str) = " " THEN Strip(Tail(str))
    ELSE IF str[Len(str)] = " " THEN Strip(SubSeq(str, 1, Len(str) - 1))
    ELSE str

\* The value of a string of digits with single underscores between them.
RECURSIVE DigitsValue(_, _)
DigitsValue(str, acc) ==
    IF str = << >> THEN acc
    ELSE IF Head(str) = "_" THEN DigitsValue(Tail(str), acc)
    ELSE DigitsValue(Tail(str), 10 * acc + DigitValue(Head(str)))

\* Whether int() accepts the unsigned part: digits, with single underscores
\* only between digits.
IsDigits(str) ==
    /\ str # << >>
    /\ \A i \in DOMAIN str : str[i] \in Digits \cup {"_"}
    /\ str[1] # "_" /\ str[Len(str)] # "_"
    /\ \A i \in 1..(Len(str) - 1) : ~(str[i] = "_" /\ str[i + 1] = "_")

\* int(str): {v} for the value v, {} for ValueError.  Blanks around the
\* number and one sign are accepted.
int(str) ==
    LET t == Strip(str)
        signed == t # << >> /\ Head(t) \in {"+", "-"}
        body == IF signed THEN Tail(t) ELSE t
    IN  IF ~IsDigits(body) THEN {}
        ELSE IF signed /\ Head(t) = "-" THEN {0 - DigitsValue(body, 0)}
        ELSE {DigitsValue(body, 0)}

\* str.upper() and the str of one character as the channel name.
upper(str) == [i \in DOMAIN str |-> Upper(str[i])]

\* What parse_shock_args returns: (payload, error_msg, notes), payload None
\* with an error, error_msg None with a payload.  An error in copies comes
\* with the notes made so far.
ParseError(msg) == [payload |-> {}, error |-> msg, notes |-> {}]

\* The optional freq argument kept as given when it is above 200.
parse_freq_no_clamp(args) ==
    IF Len(args) < 3 THEN [error |-> "", freq |-> 20, notes |-> {}]
    ELSE LET parsed == int(args[3])
         IN  IF parsed = {}
             THEN [error |-> "freq must be an integer 0..200.", freq |-> 20, notes |-> {}]
             ELSE LET freq == CHOOSE v \in parsed : TRUE
                  IN  IF freq < 0
                      THEN [error |-> "freq must be >= 0.", freq |-> 20, notes |-> {}]
                      ELSE [error |-> "", freq |-> freq, notes |-> {}]

\* The optional freq argument: the default 20, an error, or the value, which
\* above 200 is clamped to 200 and noted.
parse_freq(args) ==
    IF Len(args) < 3 THEN [error |-> "", freq |-> 20, notes |-> {}]
    ELSE LET parsed == int(args[3])
         IN  IF parsed = {}
             THEN [error |-> "freq must be an integer 0..200.", freq |-> 20, notes |-> {}]
             ELSE LET freq == CHOOSE v \in parsed : TRUE
                  IN  IF freq < 0
                      THEN [error |-> "freq must be >= 0.", freq |-> 20, notes |-> {}]
                      ELSE IF freq > 200
                      THEN [error |-> "", freq |-> 200,
                            notes |-> {<<"clamped_freq_from", freq>>}]
                      ELSE [error |-> "", freq |-> freq, notes |-> {}]

\* The optional copies argument: the default 5, an error, or the value.
parse_copies(args) ==
    IF Len(args) < 4 THEN [error |-> "", copies |-> 5]
    ELSE LET parsed == int(args[4])
         IN  IF parsed = {}
             THEN [error |-> "copies must be an integer 1..100.", copies |-> 5]
             ELSE LET copies == CHOOSE v \in parsed : TRUE
                  IN  IF ~(1 <= copies /\ copies <= 100)
                      THEN [error |-> "copies must be 1..100.", copies |-> 5]
                      ELSE [error |-> "", copies |-> copies]

\* parse_shock_args(args), args a list of str.
parse_shock_args(args) ==
    IF Len(args) < 2 THEN ParseError("Missing arguments.")
    ELSE IF upper(args[1]) \notin {<<"A">>, <<"B">>}
    THEN ParseError("Channel must be A or B.")
    ELSE IF int(args[2]) = {} THEN ParseError("amp must be an integer 0..100.")
    ELSE LET channel == upper(args[1])[1]
             amp == CHOOSE v \in int(args[2]) : TRUE
             f == parse_freq(args)
             c == parse_copies(args)
         IN  IF ~(0 <= amp /\ amp <= 100) THEN ParseError("amp must be 0..100.")
             ELSE IF f.error # "" THEN ParseError(f.error)
             ELSE IF c.error # ""
             THEN [payload |-> {}, error |-> c.error, notes |-> f.notes]
             ELSE [payload |-> {[channel |-> channel, amp |-> amp,
                                 freq |-> f.freq, copies |-> c.copies]},
                   error |-> "",
                   notes |-> f.notes]

\* shock_cmd up to its first await: the arguments are parsed; on an error the
\* bot replies with it, else it goes on to post the payload.
shock_cmd(args) ==
    /\ ~bot.posting
    /\ bot.n < MaxCommands
    /\ LET r == parse_shock_args(args)
       IN  bot' = [payload |-> r.payload, error |-> r.error, notes |-> r.notes,
                   posting |-> r.error = "", n |-> bot.n + 1]
    /\ UNCHANGED <<owner_max, controller, bound_event, ws_task, worker_task,
                   ws, wk, stop, queue, jobs, dev, last>>

\* post_shock(payload): the payload reaches POST /shock of the server, or the
\* server is not up and the post ends in a network error.
bot_post_shock ==
    /\ bot.posting
    /\ bot' = [bot EXCEPT !.posting = FALSE]
    /\ IF ws_task = 0
       THEN UNCHANGED <<owner_max, controller, bound_event, ws_task, worker_task,
                        ws, wk, stop, queue, jobs, dev, last>>
       ELSE \E req \in bot.payload : Shock(req, MaxCommands)

\* The application: one startup, then requests, session and worker steps, and
\* shutdown.
Next ==
    \/ on_startup
    \/ on_shutdown
    \/ StopAfterWorker
    \/ StopAfterWs
    \/ \E t \in DOMAIN ws, opened \in BOOLEAN : WsOpen(t, opened)
    \/ \E t \in DOMAIN ws : WsBound(t)
    \/ \E t \in DOMAIN ws : WsCancelled(t)
    \/ \E t \in DOMAIN wk : WorkerResume(t)
    \/ \E t \in DOMAIN wk, o \in Outcomes : WorkerClearDone(t, o)
    \/ \E t \in DOMAIN wk, o \in Outcomes : WorkerAddDone(t, o)
    \/ \E t \in DOMAIN wk : WorkerCancelled(t)
    \/ \E req \in Requests : post_shock(req, MaxJobs)
    \/ \E j \in DOMAIN jobs : CallerCancelled(j)

Spec == Init /\ [][Next]_vars

\* CoyoteServer under start() and stop() called in any sequence.
NextRestart ==
    \/ Start
    \/ StopCall
    \/ StopAfterWorker
    \/ StopAfterWs
    \/ \E t \in DOMAIN ws, opened \in BOOLEAN : WsOpen(t, opened)
    \/ \E t \in DOMAIN ws : WsBound(t)
    \/ \E t \in DOMAIN ws : WsCancelled(t)
    \/ \E t \in DOMAIN wk : WorkerResume(t)
    \/ \E t \in DOMAIN wk, o \in Outcomes : WorkerClearDone(t, o)
    \/ \E t \in DOMAIN wk, o \in Outcomes : WorkerAddDone(t, o)
    \/ \E t \in DOMAIN wk : WorkerCancelled(t)
    \/ \E req \in CapRequests : Shock(req, MaxRestartJobs) /\ UNCHANGED bot

SpecRestart == Init /\ [][NextRestart]_vars

\* The job pipeline of the running application under every owner ceiling.
InitCaps ==
    /\ owner_max \in OwnerCaps
    /\ controller = 0
    /\ bound_event = FALSE
    /\ ws_task = 0
    /\ worker_task = 0
    /\ ws = << >>
    /\ wk = << >>
    /\ stop = NotStopping
    /\ queue = << >>
    /\ jobs = << >>
    /\ dev = << >>
    /\ last = NoAnswer
    /\ bot = NoCommand

NextCaps ==
    \/ on_startup
    \/ \E t \in DOMAIN ws, opened \in BOOLEAN : WsOpen(t, opened)
    \/ \E t \in DOMAIN ws : WsBound(t)
    \/ \E t \in DOMAIN wk : WorkerResume(t)
    \/ \E t \in DOMAIN wk, o \in Outcomes : WorkerClearDone(t, o)
    \/ \E t \in DOMAIN wk, o \in Outcomes : WorkerAddDone(t, o)
    \/ \E req \in CapRequests : post_shock(req, MaxCapJobs)

SpecCaps == InitCaps /\ [][NextCaps]_vars

\* The Telegram bot in front of the /shock boundary of the started server.
NextBot ==
    \/ on_startup
    \/ \E t \in DOMAIN ws, opened \in BOOLEAN : WsOpen(t, opened)
    \/ \E t \in DOMAIN ws : WsBound(t)
    \/ \E args \in ArgLists : shock_cmd(args)
    \/ bot_post_shock

SpecBot == Init /\ [][NextBot]_vars

\* ------------------------------------------------------------- properties
\* The workers that hold a job in execution against the device.
Executing == {t \in DOMAIN wk : wk[t].pc \in {"clear", "add"}}

\* The calls made for job j.
CallsOf(j) == {i \in DOMAIN dev : dev[i].job = j}

\* The step makes a call on the device session.
MakesCall == Len(dev') > Len(dev)

\* C1: device commands are never issued concurrently.  At most one job is in
\* execution at any instant, the calls made for one job are not interleaved
\* with those of another, and every call on the device session is made by the
\* worker, for the job it holds.
C1_AtMostOneExecuting ==
    /\ Cardinality(Executing) <= 1
    /\ \A i, k \in DOMAIN dev :
          (i < k /\ dev[i].job = dev[k].job)
              => \A m \in i..k : dev[m].job = dev[i].job

C1_OnlyWorkerCalls ==
    MakesCall =>
        /\ Len(dev') = Len(dev) + 1
        /\ \E t \in DOMAIN wk :
              /\ wk[t].pc # "done"
              /\ wk'[t].pc \in {"clear", "add"}
              /\ wk'[t].job = dev'[Len(dev')].job

C1_Serialized == [](C1_AtMostOneExecuting) /\ [][C1_OnlyWorkerCalls]_vars

\* A job is in execution while another, submitted concurrently, is queued.
C1_Witness ==
    /\ \E t \in DOMAIN wk : wk[t].pc = "add"
    /\ queue # << >>

\* C2: jobs are executed strictly in submission order.  A job's index in jobs
\* is its place in the order of queue.put: the calls on the device session are
\* in that order, the queue holds its jobs in that order, and every job
\* dequeued so far was submitted before every job still queued.
C2_SubmissionOrder ==
    /\ \A i, k \in DOMAIN dev : i < k => dev[i].job <= dev[k].job
    /\ \A i, k \in DOMAIN queue : i < k => queue[i] < queue[k]
    /\ \A i \in DOMAIN dev, k \in DOMAIN queue : dev[i].job < queue[k]
    /\ \A t \in DOMAIN wk, k \in DOMAIN queue :
          wk[t].job # 0 => wk[t].job < queue[k]

\* Two jobs were submitted and both have been executed, the second last.
C2_Witness ==
    /\ Len(dev) = 4
    /\ dev[1].job = 1
    /\ dev[4].job = 2
    /\ dev[4].op = "add"

\* C3: all actuation is gated on the binding-readiness flag.  Every call on
\* the device session was made in a state where bound_event was set.
C3_GatedOnBound == \A i \in DOMAIN dev : dev[i].bound

\* A worker created by a second start() has fired a job.
C3_Witness ==
    /\ Len(wk) = 2
    /\ \E i \in DOMAIN dev : dev[i].op = "add" /\ dev[i].res = "ok"

\* C4: the amplitude the worker passes to controller.shock is the smaller of
\* the requested amplitude and the owner ceiling, never above the ceiling and
\* never above 100.
C4_EffectiveAmplitude ==
    \A t \in Executing :
        LET a == wk[t].amp_eff
            req == jobs[wk[t].job].amp_requested
        IN  /\ a \in {req, owner_max}
            /\ a <= req
            /\ a <= owner_max
            /\ a <= 100

\* A job asking for more than the owner ceiling is in execution.
C4_Witness ==
    \E t \in Executing :
        /\ jobs[wk[t].job].amp_requested > owner_max
        /\ wk[t].amp_eff = owner_max

\* Job j was taken from the queue and no worker holds it any more.
Abandoned(j) ==
    /\ \A k \in DOMAIN queue : queue[k] # j
    /\ \A t \in DOMAIN wk : wk[t].job # j

\* C5: every submission resolves to exactly one outcome.  Once a job has been
\* dequeued and the worker is done with it, its result slot is assigned: no
\* job the worker let go of is left pending.
C5_DequeuedIsResolved ==
    \A j \in DOMAIN jobs : Abandoned(j) => jobs[j].done.st # "pending"

\* C6: a result slot is single-assignment.  No step changes a slot that is
\* already resolved (or cancelled by its caller), and no worker ends unless it
\* was cancelled: resolving a resolved slot is a no-op, not an error.
C6_Step ==
    /\ \A j \in DOMAIN jobs :
          jobs[j].done.st # "pending" => jobs'[j].done = jobs[j].done
    /\ \A t \in DOMAIN wk :
          (wk[t].pc # "done" /\ wk'[t].pc = "done") => wk[t].cancel

C6_SingleAssignment == [][C6_Step]_vars

\* The caller of a job went away, the job was fired all the same, and the
\* worker has moved on.
C6_Witness ==
    \E j \in DOMAIN jobs :
        /\ jobs[j].done.st = "cancelled"
        /\ \E i \in CallsOf(j) : dev[i].op = "add" /\ dev[i].res = "ok"
        /\ Abandoned(j)

\* What the device session answered to the calls made for job j.
AnswersOf(j) == {dev[i].res : i \in CallsOf(j)}

\* C7: the outcome in a job's slot matches what the gateway did for that job.
\* A success payload (200) only if reset-output and enqueue-output both
\* returned; a client fault (400) exactly for InvalidPulseOperation or
\* PulseDataTooLong; a server fault (500) for any other fault (a missing
\* controller included, which makes no call at all).
C7_OutcomeMatchesGateway ==
    \A j \in DOMAIN jobs :
        LET d == jobs[j].done
            R == AnswersOf(j)
            fired == \E i \in CallsOf(j) : dev[i].op = "add" /\ dev[i].res = "ok"
        IN  /\ d.st = "result" => (fired /\ R = {"ok"} /\ d.code = 200)
            /\ d.st = "exception" => d.code \in {400, 500}
            /\ (d.st = "exception" /\ d.code = 400) =>
                   R \cap {"invalid", "toolong"} # {}
            /\ (d.st = "exception" /\ d.code = 500) =>
                   ("fault" \in R \/ CallsOf(j) = {})
            /\ (fired /\ d.st # "cancelled") => d.st = "result"
            /\ (R \cap {"invalid", "toolong"} # {} /\ d.st # "cancelled") =>
                   (d.st = "exception" /\ d.code = 400)
            /\ ("fault" \in R /\ d.st # "cancelled") =>
                   (d.st = "exception" /\ d.code = 500)

\* One job ended as a client fault and another as a server fault.
C7_Witness ==
    \E j, k \in DOMAIN jobs :
        /\ jobs[j].done.code = 400 /\ "toolong" \in AnswersOf(j)
        /\ jobs[k].done.code = 500 /\ "fault" \in AnswersOf(k)

\* The step is the device session answering the call in flight with a fault.
FaultAnswered ==
    /\ dev # << >>
    /\ dev[Len(dev)].res = "pending"
    /\ Len(dev') >= Len(dev)
    /\ dev'[Len(dev)].res \in {"invalid", "toolong", "fault"}

\* C8: one job's failure never stops the pipeline.  When a call made for a
\* job raises, no worker ends, the job's slot gets the failure (unless its
\* caller had cancelled it), no other slot changes, the queued jobs stay as
\* they are, and the worker takes the next queued job, if there is one, and
\* starts executing it.
C8_Step ==
    FaultAnswered =>
        LET j == dev[Len(dev)].job
        IN  /\ \A t \in DOMAIN wk : wk[t].pc # "done" => wk'[t].pc # "done"
            /\ jobs[j].done.st = "pending" => jobs'[j].done.st = "exception"
            /\ DOMAIN jobs' = DOMAIN jobs
            /\ \A k \in DOMAIN jobs : k # j => jobs'[k] = jobs[k]
            /\ IF queue = << >>
               THEN /\ queue' = << >>
                    /\ \A t \in DOMAIN wk : wk[t].job = j => wk'[t].pc = "get"
               ELSE /\ queue' = Tail(queue)
                    /\ \E t \in DOMAIN wk :
                          /\ wk[t].job = j
                          /\ wk'[t].pc = "clear"
                          /\ wk'[t].job = Head(queue)
                    /\ dev'[Len(dev')].job = Head(queue)
                    /\ dev'[Len(dev')].op = "clear"

C8_FailureDoesNotStop == [][C8_Step]_vars

\* The first job failed and the second was fired after it.
C8_Witness ==
    /\ Len(jobs) = 2
    /\ jobs[1].done.st = "exception"
    /\ \E i \in CallsOf(2) : dev[i].op = "add"

\* The step is the /shock handler running on a request that validates.
ShockStep == \E req \in Requests : ShockRequestValid(req) /\ Shock(req, MaxJobs)

\* C9: a /shock request that passes validation while bound_event is unset is
\* refused at once with 503, and creates and queues no job: the queue, the
\* jobs, the workers and the device session are as before.
C9_Step ==
    (~bound_event /\ ShockStep) =>
        /\ last'.code = 503
        /\ jobs' = jobs
        /\ queue' = queue
        /\ wk' = wk
        /\ dev' = dev

C9_NotReady == [][C9_Step]_vars

\* The server is started, the app has not bound, and a request was refused.
C9_Witness ==
    /\ ~bound_event
    /\ ws # << >>
    /\ last.code = 503

\* A request body with a value out of range: channel not A/B, amplitude
\* outside 0..100, frequency outside 0..200, repeat count outside 1..100.
OutOfRange(req) ==
    \/ Upper(req.channel) \notin {"A", "B"}
    \/ ("amp" \in DOMAIN req /\ req.amp \notin 0..100)
    \/ ("freq" \in DOMAIN req /\ req.freq \notin 0..200)
    \/ ("copies" \in DOMAIN req /\ req.copies \notin 1..100)

\* The step is the /shock handler running on a request out of range.
InvalidShockStep == \E req \in Requests : OutOfRange(req) /\ Shock(req, MaxJobs)

\* Frequencies handed to the Frame Builder, inside and outside the range.
FreqProbe == {-7, -1, 0, 20, 200, 201, 1000}

\* The frequencies the frames carry.
FrameFreqs(frames) == {frames[i][1][k] : i \in DOMAIN frames, k \in 1..4}

\* C10: a request with a frequency above 200, like every other request out of
\* range, is refused at validation (422) and produces no job; every job ever
\* created is in range; the Frame Builder clamps whatever frequency it is
\* given to [0,200]; so no frame sent to the device carries a frequency
\* outside [0,200].
C10_Inv ==
    /\ \A j \in DOMAIN jobs :
          /\ jobs[j].channel \in {"A", "B"}
          /\ jobs[j].amp_requested \in 0..100
          /\ jobs[j].freq \in 0..200
          /\ jobs[j].copies \in 1..100
    /\ \A f \in FreqProbe :
          /\ FrameFreqs(build_pulse_frames(20, f, 1)) \subseteq 0..200
          /\ f \in 0..200 => FrameFreqs(build_pulse_frames(20, f, 1)) = {f}
    /\ \A i \in DOMAIN dev : FrameFreqs(dev[i].frames) \subseteq 0..200

C10_Step ==
    InvalidShockStep =>
        /\ last'.code = 422
        /\ jobs' = jobs
        /\ queue' = queue

C10_Validation == [](C10_Inv) /\ [][C10_Step]_vars

\* The app is bound, a request was refused at validation, and a job at the
\* frequency ceiling was fired.
C10_Witness ==
    /\ bound_event
    /\ last.code = 422
    /\ \E i \in DOMAIN dev : dev[i].op = "add" /\ 200 \in FrameFreqs(dev[i].frames)

\* The worker resolved job j (its caller had not gone away).
ResolvedByWorker(j) == jobs[j].done.st \in {"result", "exception"}

\* The calls made for job j are one reset-output followed at once by one
\* enqueue-output, both on the job's channel.
ResetThenFire(j) ==
    \E i \in DOMAIN dev :
        /\ i < Len(dev)
        /\ CallsOf(j) = {i, i + 1}
        /\ dev[i].op = "clear" /\ dev[i].ch = jobs[j].channel
        /\ dev[i + 1].op = "add" /\ dev[i + 1].ch = jobs[j].channel

\* C11 as stated: every job the worker has resolved produced exactly one
\* reset-output immediately followed by exactly one enqueue-output on its
\* channel, and the sequences are in submission order.
C11_EveryJobResetThenFire ==
    /\ \A j \in DOMAIN jobs : ResolvedByWorker(j) => ResetThenFire(j)
    /\ \A i, k \in DOMAIN dev : i < k => dev[i].job <= dev[k].job

\* C11 amended: the calls on the device session are, in submission order, one
\* sequence per executed job with no call of another job inside it: exactly
\* one reset-output on the job's channel, immediately followed by exactly one
\* enqueue-output on that channel if the reset-output returned, and by nothing
\* if it did not.  A job resolved with the success payload has both calls.
C11_ResetThenFireInOrder ==
    /\ \A i \in DOMAIN dev :
          /\ dev[i].ch = jobs[dev[i].job].channel
          /\ dev[i].op \in {"clear", "add"}
          /\ dev[i].op = "clear" =>
                /\ i > 1 => dev[i - 1].job < dev[i].job
                /\ dev[i].res = "ok" =>
                      /\ i < Len(dev)
                      /\ dev[i + 1].op = "add"
                      /\ dev[i + 1].job = dev[i].job
                /\ (dev[i].res # "ok" /\ i < Len(dev)) =>
                      dev[i + 1].job > dev[i].job
          /\ dev[i].op = "add" =>
                /\ i > 1
                /\ dev[i - 1].op = "clear"
                /\ dev[i - 1].res = "ok"
                /\ dev[i - 1].job = dev[i].job
                /\ dev[i - 1].ch = dev[i].ch
                /\ i < Len(dev) => dev[i + 1].job > dev[i].job
    /\ \A j \in DOMAIN jobs :
          /\ ResolvedByWorker(j) => CallsOf(j) # {}
          /\ jobs[j].done.st = "result" => ResetThenFire(j)

\* J1 on channel A and J2 on channel B, submitted in that order, both fired:
\* reset(A), fire(A), reset(B), fire(B).
C11_Witness ==
    /\ Len(dev) = 4
    /\ <<dev[1].op, dev[2].op, dev[3].op, dev[4].op>>
           = <<"clear", "add", "clear", "add">>
    /\ <<dev[1].ch, dev[2].ch, dev[3].ch, dev[4].ch>> = <<"A", "A", "B", "B">>
    /\ <<dev[1].job, dev[2].job, dev[3].job, dev[4].job>> = <<1, 1, 2, 2>>
    /\ \A i \in 1..4 : dev[i].res = "ok"

\* The job the step appends to jobs, if it appends one, is queued and pending.
SubmitsPendingJob ==
    /\ Len(jobs') = Len(jobs) + 1
    /\ jobs'[Len(jobs')].done.st = "pending"
    /\ queue' = Append(queue, Len(jobs'))
    /\ last' = last

\* C12 as stated: a request submitted while bound_event is unset becomes a
\* job that stays pending, not a failure.
C12_SubmitUnboundPends == [][(~bound_event /\ ShockStep) => SubmitsPendingJob]_vars

\* C12 amended: a request submitted while bound_event is unset is refused at
\* once (503) and creates no job, so its caller does get a result.  While the
\* flag is unset the sequencer executes nothing and resolves nothing, on no
\* timeout: there is no job, the queue is empty, no call was made, and every
\* worker is on queue.get().  A job is created only with the flag set, and a
\* worker that dequeues it goes straight to its execution.
C12_Inv ==
    /\ ~bound_event =>
          /\ jobs = << >>
          /\ queue = << >>
          /\ dev = << >>
          /\ \A t \in DOMAIN wk : wk[t].pc \in {"get", "done"} /\ wk[t].job = 0
    /\ \A t \in DOMAIN wk : wk[t].pc # "wait"

C12_Step ==
    /\ (~bound_event /\ ShockStep) =>
          /\ last' = Answer(HTTP_UNAVAILABLE, "not bound")
          /\ UNCHANGED <<jobs, queue, dev, wk>>
    /\ Len(jobs') > Len(jobs) => (bound_event /\ SubmitsPendingJob)
    /\ \A t \in DOMAIN wk :
          (wk[t].pc = "get" /\ wk'[t].pc # "get" /\ ~wk[t].cancel) =>
              /\ wk'[t].pc = "clear"
              /\ dev' = Append(dev, dev'[Len(dev')])
              /\ dev'[Len(dev')].job = wk'[t].job

C12_UnboundRefusedBoundExecuted == [](C12_Inv) /\ [][C12_Step]_vars

\* The session is open and waiting for the app to bind, the worker is idle,
\* and a request has been refused as not bound.
C12_Witness ==
    /\ ~bound_event
    /\ \E t \in DOMAIN ws : ws[t].pc = "bind"
    /\ \E t \in DOMAIN wk : wk[t].pc = "get" /\ ~wk[t].cancel
    /\ stop.pc = "idle"
    /\ last = Answer(HTTP_UNAVAILABLE, "not bound")
    /\ jobs = << >>

\* The success payload the contract gives for a job under the owner ceiling.
ExpectedPayload(job) ==
    [ok |-> TRUE,
     mode |-> "pulse",
     channel |-> job.channel,
     amp_requested |-> job.amp_requested,
     amp_effective |-> IF job.amp_requested <= owner_max
                       THEN job.amp_requested ELSE owner_max,
     owner_max |-> owner_max,
     freq |-> IF job.freq < 0 THEN 0 ELSE IF job.freq > 200 THEN 200 ELSE job.freq,
     copies |-> job.copies,
     approx_duration_ms |-> job.copies * 100]

\* C13: every job resolved with a result carries the success payload {ok,
\* mode "pulse", channel, amp_requested, amp_effective = min(requested, owner
\* ceiling), owner_max, freq clamped to [0,200], copies, approx_duration_ms =
\* copies x 100}, for every owner ceiling; submit(A, 80, 20, 5) under ceiling
\* 50 yields amp_requested 80, amp_effective 50, freq 20, copies 5 and
\* approx_duration_ms 500.
C13_SuccessPayload ==
    \A j \in DOMAIN jobs :
        jobs[j].done.st = "result" =>
            /\ jobs[j].done.resp = ExpectedPayload(jobs[j])
            /\ (/\ owner_max = 50
                /\ jobs[j].channel = "A" /\ jobs[j].amp_requested = 80
                /\ jobs[j].freq = 20 /\ jobs[j].copies = 5) =>
                   /\ jobs[j].done.resp.amp_requested = 80
                   /\ jobs[j].done.resp.amp_effective = 50
                   /\ jobs[j].done.resp.freq = 20
                   /\ jobs[j].done.resp.copies = 5
                   /\ jobs[j].done.resp.approx_duration_ms = 500

\* submit(A, 80, 20, 5) under owner ceiling 50 has succeeded.
C13_Witness ==
    /\ owner_max = 50
    /\ \E j \in DOMAIN jobs :
          /\ jobs[j].done.st = "result"
          /\ jobs[j].amp_requested = 80
          /\ jobs[j].done.resp.amp_effective = 50
          /\ jobs[j].done.resp.approx_duration_ms = 500

\* Amplitudes and repeat counts handed to the Frame Builder, inside and
\* outside their ranges.
AmpProbe == {-5, 0, 1, 50, 100, 101}
CopiesProbe == {-1, 0, 1, 2, 100, 101}

\* The amplitude slots of a frame that are not zero.
NonZeroSlots(frame) == {k \in 1..4 : frame[2][k] # 0}

\* x limited to lo..hi.
Limited(x, lo, hi) == IF x < lo THEN lo ELSE IF x > hi THEN hi ELSE x

\* The frames are `repeat` limited to [1,100] frames, all identical.
FramesRepeated(frames, copies) ==
    /\ Len(frames) = Limited(copies, 1, 100)
    /\ \A i \in DOMAIN frames : frames[i] = frames[1]

\* Every frame has exactly one non-zero amplitude slot, equal to amp limited
\* to [0,100].
OneNonZeroSlot(frames, amp) ==
    \A i \in DOMAIN frames :
        /\ Cardinality(NonZeroSlots(frames[i])) = 1
        /\ \A k \in NonZeroSlots(frames[i]) : frames[i][2][k] = Limited(amp, 0, 100)

\* Every frame carries amp limited to [0,100] in its second amplitude slot
\* and zero in the other three.
OneSpikeSlot(frames, amp) ==
    \A i \in DOMAIN frames : frames[i][2] = <<0, Limited(amp, 0, 100), 0, 0>>

\* The amplitude the worker hands to the Frame Builder for job j.
BuilderAmp(j) ==
    IF jobs[j].amp_requested <= owner_max THEN jobs[j].amp_requested ELSE owner_max

\* The enqueue-output calls made so far.
AddCalls == {i \in DOMAIN dev : dev[i].op = "add"}

\* C14 as stated: for a valid amplitude, the frames of every enqueue-output
\* are the limited repeat count of identical frames, each with exactly one
\* non-zero amplitude slot equal to the limited amplitude.
C14_OneNonZeroSlot ==
    \A i \in AddCalls :
        BuilderAmp(dev[i].job) \in 0..100 =>
            /\ FramesRepeated(dev[i].frames, jobs[dev[i].job].copies)
            /\ OneNonZeroSlot(dev[i].frames, BuilderAmp(dev[i].job))

\* C14 amended: for every input, in range or not, the Frame Builder returns
\* (it never rejects) exactly clamp(repeat, 1, 100) identical frames whose
\* amplitude vector is (0, clamp(amp, 0, 100), 0, 0): one non-zero slot when
\* the clamped amplitude is above 0, and four zero slots when it is 0 (amp = 0
\* is a valid input).  This holds of the frames of every enqueue-output and of
\* the builder on the probe inputs.
C14_FrameBuilder ==
    /\ \A i \in AddCalls :
          /\ FramesRepeated(dev[i].frames, jobs[dev[i].job].copies)
          /\ OneSpikeSlot(dev[i].frames, BuilderAmp(dev[i].job))
          /\ BuilderAmp(dev[i].job) > 0 =>
                OneNonZeroSlot(dev[i].frames, BuilderAmp(dev[i].job))
          /\ BuilderAmp(dev[i].job) <= 0 =>
                \A k \in DOMAIN dev[i].frames : NonZeroSlots(dev[i].frames[k]) = {}
    /\ \A a \in AmpProbe, c \in CopiesProbe :
          LET frames == build_pulse_frames(a, DEF_FREQ, c)
          IN  /\ FramesRepeated(frames, c)
              /\ OneSpikeSlot(frames, a)
              /\ a > 0 => OneNonZeroSlot(frames, a)

\* An enqueue-output of five frames at 20 Hz with the spike at the owner
\* ceiling 50 has been made.
C14_Witness ==
    \E i \in AddCalls :
        /\ dev[i].res = "ok"
        /\ Len(dev[i].frames) = 5
        /\ dev[i].frames[5] = << <<20, 20, 20, 20>>, <<0, 50, 0, 0>> >>

\* Where job j is on its way through the sequencer: 1 queued, 2 held by a
\* worker waiting for the binding, 3 in execution, 4 the worker is done with it.
Phase(qu, w, j) ==
    IF \E k \in DOMAIN qu : qu[k] = j THEN 1
    ELSE IF \E t \in DOMAIN w : w[t].job = j /\ w[t].pc = "wait" THEN 2
    ELSE IF \E t \in DOMAIN w : w[t].job = j /\ w[t].pc \in {"clear", "add"} THEN 3
    ELSE 4

\* The calls of kind op made for job j in the call sequence d.
CallsOfKind(d, j, op) == {i \in DOMAIN d : d[i].job = j /\ d[i].op = op}

\* C15: at-most-once delivery.  A job is in the queue at most once and held by
\* at most one worker, never both; controller.shock is invoked at most once
\* for it (one reset-output, one enqueue-output at most); a job the worker
\* resolved is out of the queue and out of every worker's hands.  No step
\* moves a job backwards among queued, waiting for the binding, executing and
\* done, and once the worker is done with a job no call is made for it again:
\* a failed job is not retried and a resolved job is not executed again.
C15_Inv ==
    \A j \in DOMAIN jobs :
        /\ Cardinality({k \in DOMAIN queue : queue[k] = j}) <= 1
        /\ Cardinality({t \in DOMAIN wk : wk[t].job = j}) <= 1
        /\ (\E k \in DOMAIN queue : queue[k] = j) =>
               (\A t \in DOMAIN wk : wk[t].job # j) /\ CallsOf(j) = {}
        /\ Cardinality(CallsOfKind(dev, j, "clear")) <= 1
        /\ Cardinality(CallsOfKind(dev, j, "add")) <= 1
        /\ ResolvedByWorker(j) => Phase(queue, wk, j) = 4

C15_Step ==
    \/ queue' = queue /\ wk' = wk /\ dev' = dev /\ jobs' = jobs
    \/ \A j \in DOMAIN jobs :
           LET before == Phase(queue, wk, j)
               after == Phase(queue', wk', j)
           IN  /\ after >= before
               /\ before = 4 =>
                      /\ after = 4
                      /\ \/ dev' = dev
                         \/ /\ CallsOfKind(dev', j, "clear") = CallsOfKind(dev, j, "clear")
                            /\ CallsOfKind(dev', j, "add") = CallsOfKind(dev, j, "add")
               /\ ResolvedByWorker(j) => jobs'[j] = jobs[j]

C15_AtMostOnce == [](C15_Inv) /\ [][C15_Step]_vars

\* The first job failed on its reset-output, which was its only call, and the
\* second job was executed to success after it.
C15_Witness ==
    /\ Len(jobs) = 2
    /\ jobs[1].done.st = "exception"
    /\ Cardinality(CallsOf(1)) = 1
    /\ jobs[2].done.st = "result"
    /\ queue = << >>

\* The step is the caller of job j going away while it awaits the result.
CallerLeaves(j) == jobs[j].done.st = "pending" /\ jobs'[j].done.st = "cancelled"

\* The call in flight is answered in this step.
CallAnswered ==
    /\ dev # << >>
    /\ dev[Len(dev)].res = "pending"
    /\ Len(dev') >= Len(dev)
    /\ dev'[Len(dev)].res # "pending"

\* C16: cancellation of the requester does not cancel the job.  The step in
\* which a caller goes away changes nothing but that job's slot: the job stays
\* where it is in the queue, or in execution.  A worker takes the job at the
\* head of the queue and makes its reset-output whatever the state of its
\* slot, so every job that left the queue was executed against the device in
\* its turn.  When the calls for a job without a caller are answered its slot
\* stays as it is (the result is discarded), no worker ends, and the worker
\* goes on with the next queued job.
C16_Inv ==
    \A j \in DOMAIN jobs :
        Phase(queue, wk, j) >= 3 => CallsOfKind(dev, j, "clear") # {}

C16_Step ==
    /\ \A j \in DOMAIN jobs :
          CallerLeaves(j) =>
              /\ UNCHANGED <<queue, wk, dev>>
              /\ \A k \in DOMAIN jobs : k # j => jobs'[k] = jobs[k]
    /\ (queue # << >> /\ queue' = Tail(queue)) =>
          /\ dev'[Len(dev')].job = Head(queue)
          /\ dev'[Len(dev')].op = "clear"
          /\ \E t \in DOMAIN wk : wk'[t].pc = "clear" /\ wk'[t].job = Head(queue)
    /\ (CallAnswered /\ jobs[dev[Len(dev)].job].done.st = "cancelled") =>
          /\ jobs' = jobs
          /\ \A t \in DOMAIN wk : wk[t].pc # "done" => wk'[t].pc # "done"
          /\ (dev'[Len(dev)].res = "ok" /\ dev[Len(dev)].op = "clear") =>
                /\ Len(dev') = Len(dev) + 1
                /\ dev'[Len(dev')].op = "add"
                /\ dev'[Len(dev')].job = dev[Len(dev)].job
          /\ (dev'[Len(dev)].res # "ok" \/ dev[Len(dev)].op = "add") =>
                IF queue = << >>
                THEN dev' = Answered(dev, dev'[Len(dev)].res)
                ELSE /\ queue' = Tail(queue)
                     /\ dev'[Len(dev')].job = Head(queue)

C16_CallerCancelDoesNotCancelJob == [](C16_Inv) /\ [][C16_Step]_vars

\* The caller of the first job went away; the job was fired all the same, its
\* slot still says cancelled, and the job submitted after it got its result.
C16_Witness ==
    /\ Len(jobs) = 2
    /\ jobs[1].done.st = "cancelled"
    /\ \E i \in CallsOfKind(dev, 1, "add") : dev[i].res = "ok"
    /\ jobs[2].done.st = "result"

\* Every task of the sequence has ended.
AllDone(tasks) == \A t \in DOMAIN tasks : tasks[t].pc = "done"

\* C17: stop cancels the worker and the session task and awaits both.  The
\* worker is cancelled first and has ended before the session task is
\* cancelled, so it has ended before the device session is released; a task
\* ends by cancellation only while stop awaits it; when stop has returned the
\* worker and the session task are finished; and after stop has returned no
\* call is made on the device session and none is answered to a worker.
C17_Inv ==
    /\ stop.stopped => (AllDone(wk) /\ AllDone(ws))
    /\ stop.pc = "await_worker" =>
          /\ stop.w = worker_task
          /\ wk[stop.w].cancel \/ wk[stop.w].pc = "done"
    /\ stop.pc = "await_ws" =>
          /\ stop.s = ws_task
          /\ ws[stop.s].cancel \/ ws[stop.s].pc = "done"
          /\ AllDone(wk)
    /\ \A t \in DOMAIN ws : ws[t].cancel => AllDone(wk)

C17_Step ==
    /\ stop.stopped => dev' = dev
    /\ \A t \in DOMAIN wk :
          /\ (~wk[t].cancel /\ wk'[t].cancel) =>
                (stop.pc = "idle" /\ stop'.pc = "await_worker" /\ stop'.w = t)
          /\ (wk[t].pc # "done" /\ wk'[t].pc = "done") =>
                (stop.pc = "await_worker" /\ stop.w = t)
    /\ \A t \in DOMAIN ws :
          /\ (~ws[t].cancel /\ ws'[t].cancel) =>
                (stop'.pc = "await_ws" /\ stop'.s = t /\ AllDone(wk))
          /\ (ws[t].pc \in {"bind", "alive"} /\ ws'[t].pc = "done") =>
                (stop.pc = "await_ws" /\ stop.s = t /\ AllDone(wk))
    /\ (stop.pc # "idle" /\ stop'.pc = "idle") =>
          (stop'.stopped /\ AllDone(wk') /\ AllDone(ws'))

C17_StopAwaitsBothTasks == [](C17_Inv) /\ [][C17_Step]_vars

\* stop has returned after cancelling a worker that was in the middle of a
\* job and a session task that had bound.
C17_Witness ==
    /\ stop.stopped
    /\ bound_event
    /\ wk # << >> /\ ws # << >>
    /\ dev # << >> /\ dev[Len(dev)].res = "pending"

\* The step is a session task coming back from client.bind().
BindReturns == \E t \in DOMAIN ws :
    ws[t].pc = "bind" /\ ~ws[t].cancel /\ ws'[t].pc = "alive"

\* C18: the binding-readiness flag is a one-shot latch.  It is unset until a
\* session task exists; it goes from unset to set only in the step in which a
\* session task comes back from client.bind(), which happens once; and no
\* step (a request, a job, a failure, the end of the session, stop, start)
\* takes it from set to unset.
C18_Inv ==
    /\ ws = << >> => ~bound_event
    /\ bound_event => \E t \in DOMAIN ws : ws[t].pc \in {"alive", "done"}
    /\ (\E t \in DOMAIN ws : ws[t].pc = "alive") => bound_event

C18_Step ==
    /\ bound_event => bound_event'
    /\ (~bound_event /\ bound_event') => BindReturns
    /\ BindReturns => (~bound_event /\ bound_event')

C18_OneShotLatch == [](C18_Inv) /\ [][C18_Step]_vars

\* The flag is still set after a job failed, the session task was cancelled
\* and stop returned.
C18_Witness ==
    /\ bound_event
    /\ stop.stopped
    /\ AllDone(ws)
    /\ \E j \in DOMAIN jobs : jobs[j].done.st = "exception"

\* The tasks of the sequence that have not ended.
LiveTasks(tasks) == {t \in DOMAIN tasks : tasks[t].pc # "done"}

\* C19: there is never more than one live consumer.  After any sequence of
\* start and stop calls at most one _run_worker task and at most one _run_ws
\* task are running, and the running one is the one the server refers to;
\* start creates a task only when the server refers to none or to a finished
\* one; and a worker ends only by cancellation, never because a job raised.
C19_Inv ==
    /\ Cardinality(LiveTasks(wk)) <= 1
    /\ Cardinality(LiveTasks(ws)) <= 1
    /\ LiveTasks(wk) \subseteq {worker_task}
    /\ LiveTasks(ws) \subseteq {ws_task}

C19_Step ==
    /\ Len(wk') > Len(wk) =>
          /\ ~Live(wk, worker_task)
          /\ Len(wk') = Len(wk) + 1 /\ worker_task' = Len(wk')
    /\ Len(ws') > Len(ws) =>
          /\ ~Live(ws, ws_task)
          /\ Len(ws') = Len(ws) + 1 /\ ws_task' = Len(ws')
    /\ \A t \in DOMAIN wk :
          (wk[t].pc # "done" /\ wk'[t].pc = "done") =>
              (wk[t].cancel /\ ~FaultAnswered)
    /\ FaultAnswered => LiveTasks(wk') = LiveTasks(wk)

C19_AtMostOneConsumer == [](C19_Inv) /\ [][C19_Step]_vars

\* After a stop and a second start the second worker and the second session
\* task are the only live ones, and a job has raised on the second session.
C19_Witness ==
    /\ Len(wk) = 2 /\ LiveTasks(wk) = {2}
    /\ Len(ws) = 2 /\ LiveTasks(ws) = {2}
    /\ \E i \in DOMAIN dev : dev[i].ctl = 2 /\ dev[i].res = "fault"

\* C20: whenever bound_event is set the controller is set, because a session
\* task assigns it before it awaits the binding and nothing resets it.  So
\* every call on the device session went through a controller, no job was
\* failed for a missing controller (resolved without a call), /shock never
\* answers "Controller not ready", and a session task waiting in
\* client.bind() or past it has its server's controller in place.
C20_BoundImpliesController ==
    /\ bound_event => controller # 0
    /\ \A t \in DOMAIN ws : ws[t].pc \in {"bind", "alive"} => controller = t
    /\ \A i \in DOMAIN dev : dev[i].ctl # 0
    /\ \A t \in DOMAIN wk : wk[t].pc \in {"clear", "add"} => wk[t].ctl # 0
    /\ \A j \in DOMAIN jobs : ResolvedByWorker(j) => CallsOf(j) # {}
    /\ last.detail # "no controller"

\* The app has bound, a job went through the controller, and the flag and the
\* controller are both still set after the session task was cancelled and stop
\* returned.
C20_Witness ==
    /\ bound_event
    /\ controller # 0
    /\ stop.stopped
    /\ \E i \in DOMAIN dev : dev[i].ctl = controller /\ dev[i].res = "ok"

\* The jobs that are on the queue.
Queued(q) == {q[k] : k \in DOMAIN q}

\* C21: the readiness test and the enqueue of /shock run in one piece, so a
\* job comes onto the queue only in a step that starts and ends with
\* bound_event set, and the flag does not go back; hence the queue is empty
\* whenever the flag is unset, and no worker is ever suspended in
\* bound_event.wait() with a job in hand: a worker that takes a job off the
\* queue is executing it at its next suspension.
C21_Inv ==
    /\ ~bound_event => Queued(queue) = {}
    /\ \A t \in DOMAIN wk : wk[t].job # 0 => (bound_event /\ wk[t].pc \in {"clear", "add"})

C21_Step ==
    /\ Queued(queue') \ Queued(queue) # {} => (bound_event /\ bound_event')
    /\ \A j \in Queued(queue) \ Queued(queue') :
          \E t \in DOMAIN wk : wk'[t].job = j /\ wk'[t].pc = "clear"

C21_QueueEmptyWhileUnbound == [](C21_Inv) /\ [][C21_Step]_vars

\* A request was refused before the app had bound, and after the binding one
\* job is in execution and another waits on the queue.
C21_Witness ==
    /\ last = Answer(HTTP_UNAVAILABLE, "not bound")
    /\ bound_event
    /\ Len(queue) = 1
    /\ \E t \in DOMAIN wk : wk[t].pc = "clear" /\ wk[t].job = 1

\* The payload of job j agrees with the frames of the enqueue-output call i:
\* amplitude, frequency, number of frames, and 100 ms per frame.
PayloadMatchesFrames(j, i) ==
    LET resp == jobs[j].done.resp
        frames == dev[i].frames
    IN  /\ \A k \in DOMAIN frames :
              /\ frames[k][2][2] = resp.amp_effective
              /\ frames[k][1] = <<resp.freq, resp.freq, resp.freq, resp.freq>>
        /\ resp.copies = Len(frames)
        /\ resp.approx_duration_ms = 100 * Len(frames)

\* C22: the success payload reports what was sent to the device.  For every
\* job resolved with a result, under every owner ceiling, the payload's
\* amp_effective is the amplitude the submitted frames carry, freq their
\* frequency, copies their number and approx_duration_ms 100 times that.
C22_PayloadReportsFrames ==
    \A j \in DOMAIN jobs :
        jobs[j].done.st = "result" =>
            \E i \in CallsOfKind(dev, j, "add") :
                dev[i].res = "ok" /\ PayloadMatchesFrames(j, i)

\* ------------------------------------------- the bot and the /shock boundary
\* A payload as the claim describes it.
PayloadInRange(p) ==
    /\ DOMAIN p = {"channel", "amp", "freq", "copies"}
    /\ p.channel \in {"A", "B"}
    /\ p.amp \in 0..100
    /\ p.freq \in 0..200
    /\ p.copies \in 1..100

\* What parse_shock_args gives for three argument lists: no freq and no
\* copies, a freq above 200 and no copies, and all four arguments.
ParseProbes ==
    /\ parse_shock_args(<< <<"b">>, <<"1", "0", "0">> >>)
         = [payload |-> {[channel |-> "B", amp |-> 100, freq |-> 20, copies |-> 5]},
            error |-> "", notes |-> {}]
    /\ parse_shock_args(<< <<"A">>, <<"+", "7">>, <<"2", "0", "1">> >>)
         = [payload |-> {[channel |-> "A", amp |-> 7, freq |-> 200, copies |-> 5]},
            error |-> "", notes |-> {<<"clamped_freq_from", 201>>}]
    /\ parse_shock_args(<< <<"A">>, <<"0">>, <<"0">>, <<"1", "0", "0">> >>)
         = [payload |-> {[channel |-> "A", amp |-> 0, freq |-> 0, copies |-> 100]},
            error |-> "", notes |-> {}]
    /\ parse_shock_args(<< <<"A">>, <<"0">>, <<"-", "1">> >>).payload = {}

\* After every command the bot holds an error and no payload, or no error and
\* one payload in range that ShockRequest accepts; a note is kept only with a
\* freq of 200 and names the larger value asked for; only a payload is posted.
C23_Inv ==
    /\ bot.n > 0 => (bot.error # "" /\ bot.payload = {})
                    \/ (bot.error = "" /\ Cardinality(bot.payload) = 1)
    /\ \A p \in bot.payload : PayloadInRange(p) /\ ShockRequestValid(p)
    /\ \A note \in bot.notes :
           /\ note[1] = "clamped_freq_from" /\ note[2] > 200
           /\ \A p \in bot.payload : p.freq = 200
    /\ bot.posting => bot.payload # {}
    /\ last.code # HTTP_UNPROCESSABLE
    /\ ParseProbes

\* A post of the bot's payload is not answered 422: the server answers 503 or
\* queues a job of exactly the payload's fields.
C23_Step ==
    (bot.posting /\ ~bot'.posting /\ ws_task # 0) =>
        /\ last'.code # HTTP_UNPROCESSABLE
        /\ \/ last' = Answer(HTTP_UNAVAILABLE, "not bound") /\ jobs' = jobs
           \/ last' = Answer(HTTP_UNAVAILABLE, "no controller") /\ jobs' = jobs
           \/ /\ Len(jobs') = Len(jobs) + 1
              /\ \E p \in bot.payload :
                     LET job == jobs'[Len(jobs')]
                     IN  /\ job.channel = p.channel /\ job.amp_requested = p.amp
                         /\ job.freq = p.freq /\ job.copies = p.copies

\* C23: for every argument list parse_shock_args returns an error with no
\* payload, or a payload with channel in {A, B}, amp in 0..100, freq in 0..200
\* and copies in 1..100 (a freq above 200 clamped to 200 and noted, a missing
\* freq or copies defaulting to 20 and 5), so that no payload the bot posts
\* fails the ShockRequest validation of POST /shock.
C23_BotPayloadPassesBoundary == [](C23_Inv) /\ [][C23_Step]_vars

\* A command whose freq was clamped has been handled, its payload posted to
\* the bound server and queued as a job with freq 200.
C23_Witness ==
    /\ bot.n = 1 /\ ~bot.posting
    /\ bot.notes # {}
    /\ Len(jobs) = 1 /\ jobs[1].freq = 200
    /\ \A p \in bot.payload : p.freq = 200 /\ jobs[1].amp_requested = p.amp
====
